---------------------------- MODULE Spec2Model ----------------------------
(***************************************************************************)
(* Model of the PLC data collector (src/data-collector/collector.py with   *)
(* the storage manager of src/data-collector/database.py).                 *)
(*                                                                         *)
(* The collector is one Python main thread.  Its control state is a stack  *)
(* of frames: stack[1] is run() (startup, poll loop, cleanup); every       *)
(* delivered SIGINT pushes a frame that executes _signal_handler ->        *)
(* shutdown() on top of whatever the interrupted frame was doing, and pops *)
(* when the handler returns.  Only the top frame takes steps.              *)
(***************************************************************************)
EXTENDS Integers, Sequences, FiniteSets, TLC

VARIABLES
    stack,          \* call stack of the main thread: frames with pc and locals
    running,        \* IndustrialDataCollector.running (threading.Event)
    stats,          \* IndustrialDataCollector.stats counters
    plc,            \* PLCConnection fields: client, connected, last_error
    db,             \* IndustrialDatabaseManager fields: connection, connected
    dbc,            \* locals of IndustrialDatabaseManager.connect: attempt, retry_delay;
                    \* with them the delays it has slept and the value it returned
    buffer,         \* DataBuffer.buffer (deque), oldest first
    last_flush,     \* DataBuffer.last_flush
    max_size,       \* DataBuffer.max_size
    flush_interval, \* DataBuffer.flush_interval
    lock,           \* DataBuffer.lock: 0 when free, else the depth of the holding frame
    now,            \* the wall clock (time.time() / datetime.utcnow())
    writes,         \* the bulk_insert_readings calls storage has received, in order
    env,            \* how many failures / polls / signals the environment has produced
    exit_status,    \* process exit status once run() has returned, else -1
    obs,            \* history: what was buffered and written when the first stop
                    \* request came, whether a shutdown flush has drained the buffer,
                    \* the loop iterations started, the iteration that first found the
                    \* device down, connection_errors at that moment, the failed
                    \* connect() calls since, whether data_collection_loop was
                    \* entered, and how the two disconnects of cleanup() ended
    call            \* the last DataBuffer method call made by the buffer driver

vars == <<stack, running, stats, plc, db, dbc, buffer, last_flush, max_size,
          flush_interval, lock, now, writes, env, exit_status, obs, call>>

---------------------------------------------------------------------------
(* Bounds of the model. *)

MaxPolls == 2            \* read_sensors calls explored
MaxSignals == 2          \* SIGINT deliveries explored
MaxReadErrors == 2       \* channel reads answered with a protocol error
MaxReadFaults == 1       \* channel reads that raise
MaxPlcRefusals == 3      \* failed PLCConnection.connect calls in the poll loop
MaxWriteFailures == 1    \* bulk writes that fail
MaxLoopFaults == 1       \* exceptions that reach the except clause of the poll loop
SmallMaxSize == 3        \* DataBuffer(max_size=3): the size trigger within reach
SmallFlushInterval == 5  \* DataBuffer(flush_interval=5): the time trigger within reach
MaxCalls == 4            \* steps of the DataBuffer driver
MaxBatch == 3            \* longest list the driver passes to add_readings

(* Program constants. *)

DefaultMaxSize == 1000   \* DataBuffer.__init__ max_size default
DefaultFlushInterval == 30
ReadInterval == 5        \* read_interval
ConnectBackoff == 10     \* time.sleep(10) after a failed reconnect
LoopRecoveryDelay == 5   \* time.sleep(5) in the except clause of the poll loop
MaxRetries == 5          \* max_retries of IndustrialDatabaseManager.connect
InitialRetryDelay == 2   \* retry_delay of IndustrialDatabaseManager.connect

\* PLCConnection.sensor_map, in insertion (iteration) order
sensor_map == <<"temperature", "pressure", "flow_rate", "vibration", "motor_speed">>

---------------------------------------------------------------------------
(* Frames. *)

\* attempts, polled and answers are bookkeeping of the current loop iteration:
\* the connect() calls it has made, whether it has called read_sensors(), and
\* what the device answered to each channel read of that call, in order.
NoLocals ==
    [ret |-> "", readings |-> <<>>, timestamp |-> 0, ch |-> 0,
     buffer_size |-> 0, force_flush |-> FALSE, batch |-> <<>>, rv |-> "None",
     attempts |-> 0, polled |-> FALSE, answers |-> <<>>]

Frame(p) == [pc |-> p] @@ NoLocals

Depth == Len(stack)
Top == stack[Depth]
Main == stack[1]
At(p) == Top.pc = p

SetTop(f) == [stack EXCEPT ![Depth] = f]
Goto(p) == SetTop([Top EXCEPT !.pc = p])

InHandler == Depth > 1

\* A frame returns from flush_buffer_to_database: the poll loop goes on to its
\* sleep; shutdown() and with it the signal handler return, and the
\* interrupted frame goes on (collector.py 320-322, 277).
Return ==
    IF Top.ret = "sh_done"
    THEN SubSeq(stack, 1, Depth - 1)
    ELSE SetTop([Top EXCEPT !.pc = Top.ret, !.ret = "", !.batch = <<>>])

\* The environment misbehaves in one way per run: a failure of the kinds in
\* `mine` is explored only when no failure of another kind has happened and
\* the stop request has not been repeated; a repeated stop request is explored
\* only in a run without failures.
TroubleKinds ==
    {"startup", "read_errors", "read_faults", "plc_refusals", "write_failures",
     "loop_faults"}
Calm(mine) ==
    /\ \A k \in TroubleKinds \ mine : env[k] = 0
    /\ env.signals <= 1

---------------------------------------------------------------------------
(* Pure parts of the methods, computed as the code computes them. *)

\* One element of the list read_sensors builds (collector.py 104-110).  The
\* scaled value, the quality tag and the unit are passed through untouched by
\* everything modelled here and are left out of the record.
Reading(sensor, ts) == [sensor_id |-> sensor, timestamp |-> ts]

\* str(e) (collector.py 65) for the exception an outcome stands for: the
\* message the exception carries, which is empty for one raised without
\* arguments (str(TimeoutError()) is '').
str(outcome) ==
    IF outcome \in {"close_raised_bare", "connect_raised_bare"} THEN "" ELSE "timed out"

\* Mutant of plc_connect: the error of a refused connection is not recorded.
plc_connect_forgets(p, outcome) ==
    CASE outcome = "ok" ->
           [client |-> TRUE, connected |-> "True", last_error |-> "None"]
      [] outcome = "refused" ->
           [client |-> TRUE, connected |-> "False", last_error |-> p.last_error]
      [] outcome \in {"close_raised", "close_raised_bare"} ->
           [client |-> p.client, connected |-> "False", last_error |-> str(outcome)]
      [] outcome \in {"connect_raised", "connect_raised_bare"} ->
           [client |-> TRUE, connected |-> "False", last_error |-> str(outcome)]

\* PLCConnection.connect (collector.py 46-68): the fields after the call.
\* outcome: what the Modbus client did.  "ok" / "refused": client.connect()
\* returned True / False; "close_raised": close() of the previous client
\* raised; "connect_raised": client.connect() raised; "..._bare": the same
\* with an exception that carries no message.
plc_connect(p, outcome) ==
    CASE outcome = "ok" ->
           [client |-> TRUE, connected |-> "True", last_error |-> "None"]
      [] outcome = "refused" ->
           [client |-> TRUE, connected |-> "False", last_error |-> "Connection failed"]
      [] outcome \in {"close_raised", "close_raised_bare"} ->
           [client |-> p.client, connected |-> "False", last_error |-> str(outcome)]
      [] outcome \in {"connect_raised", "connect_raised_bare"} ->
           [client |-> TRUE, connected |-> "False", last_error |-> str(outcome)]

\* return self.connected (collector.py 68): the value connect() returns, given
\* the fields it leaves.
plc_connect_result(p) == p.connected

\* The outcomes the client can produce: close() is only called on an existing client.
PlcOutcomes(p) ==
    {"ok", "refused", "connect_raised", "connect_raised_bare"}
      \cup (IF p.client THEN {"close_raised", "close_raised_bare"} ELSE {})

\* Mutant of plc_disconnect: the handle is closed and connected is left as
\* it was.
plc_disconnect_keeps(p, outcome) ==
    [plc |-> p,
     result |-> IF p.client /\ outcome # "closed" THEN "raise" ELSE "None"]

\* PLCConnection.disconnect (collector.py 124-131): the fields it leaves and
\* how it ends.  Without a client nothing is done; close() may raise, and then
\* the exception leaves disconnect() before connected is assigned.
plc_disconnect(p, outcome) ==
    IF ~p.client THEN [plc |-> p, result |-> "None"]
    ELSE IF outcome = "closed"
         THEN [plc |-> [p EXCEPT !.connected = "False"], result |-> "None"]
         ELSE [plc |-> p, result |-> "raise"]

\* Mutant of Truthy: only the None of __init__ counts as not connected.
Truthy_unless_none(c) == c # "None"

\* Python truthiness of PLCConnection.connected (None, False, True).
Truthy(c) == c = "True"

\* Mutant of read_channel: a channel that answered with a protocol error
\* still yields a reading.
read_channel_keeps_errors(readings, ch, ts, outcome) ==
    IF outcome \in {"ok", "error"} THEN Append(readings, Reading(sensor_map[ch], ts))
    ELSE readings

\* One turn of the for loop of read_sensors (collector.py 88-112): the list
\* after the read of channel ch answered with `outcome`.
read_channel(readings, ch, ts, outcome) ==
    IF outcome = "ok" THEN Append(readings, Reading(sensor_map[ch], ts))
    ELSE readings

\* Mutant of after_channel: the loop goes on to the next channel after a
\* read that raised.
after_channel_goes_on(ch, outcome) ==
    IF ch = Len(sensor_map) THEN "return" ELSE "next"

\* Where read_sensors goes after the read of channel ch (collector.py 88,
\* 117-121): an exception leaves the for loop for the except clause and the
\* return; otherwise the loop takes the next channel until the table ends.
after_channel(ch, outcome) ==
    IF outcome = "raised" \/ ch = Len(sensor_map) THEN "return" ELSE "next"

\* Mutant of force_flush_signal: the limit itself does not signal.
force_flush_signal_strict(buffer_size, max) == buffer_size > max

\* Mutant of force_flush_signal: the return True of the size test is missing.
force_flush_signal_unreported(buffer_size, max) == FALSE

\* DataBuffer.add_readings, return value (collector.py 163-167).
force_flush_signal(buffer_size, max) == buffer_size >= max

\* Mutant of should_flush: the interval itself is not yet due.
should_flush_strict(t, last, interval) == (t - last) > interval

\* DataBuffer.should_flush (collector.py 169-171).
should_flush(t, last, interval) == (t - last) >= interval

\* Mutant of add_readings_buffer: extendleft, the new readings end up in
\* front and reversed.
add_readings_buffer_left(buf, readings) ==
    [i \in 1..Len(readings) |-> readings[Len(readings) + 1 - i]] \o buf

\* DataBuffer.add_readings under the lock (collector.py 157): the deque after
\* extend.
add_readings_buffer(buf, readings) == buf \o readings

\* DataBuffer.add_readings as a whole (collector.py 149-167): the deque it
\* leaves and the value it returns (None for an empty list).
add_readings(buf, readings, max) ==
    IF readings = <<>>
    THEN [buffer |-> buf, result |-> "None"]
    ELSE LET b == add_readings_buffer(buf, readings) IN
         [buffer |-> b,
          result |-> IF force_flush_signal(Len(b), max) THEN "True" ELSE "False"]

\* Mutant of get_and_clear: last_flush is reset only when something was drained.
get_and_clear_lazy(buf, t, last) ==
    [data |-> buf, buffer |-> <<>>, last_flush |-> IF buf = <<>> THEN last ELSE t]

\* Mutant of get_and_clear: the deque is copied and not cleared.
get_and_clear_keeps(buf, t, last) == [data |-> buf, buffer |-> buf, last_flush |-> t]

\* DataBuffer.get_and_clear (collector.py 175-179) called at time t: the list
\* it returns and the fields it leaves.
get_and_clear(buf, t, last) == [data |-> buf, buffer |-> <<>>, last_flush |-> t]

\* Mutant of after_drain: the empty check is missing.
after_drain_unchecked(readings) == "bulk_insert"

\* if not readings: return None (collector.py 251-252): where
\* flush_buffer_to_database goes with the drained list.
after_drain(readings) == IF readings = <<>> THEN "return" ELSE "bulk_insert"

\* Mutant of connect_failure_stats: the failed attempt is not counted.
connect_failure_stats_dropped(st) == st

\* self.stats["connection_errors"] += 1 (collector.py 228)
connect_failure_stats(st) == [st EXCEPT !.connection_errors = @ + 1]

\* IndustrialDatabaseManager.bulk_insert_readings (database.py 173-221):
\* "True", "False" or "raise".  outcome: what the database did with the insert.
bulk_insert_readings(readings, connected, outcome) ==
    IF readings = <<>> THEN "False"
    ELSE IF ~connected THEN "False"
    ELSE CASE outcome = "ok" -> "True"
           [] outcome = "db_error" -> "False"
           [] outcome = "raised" -> "raise"

\* Mutant of flush_stats: a failed batch is counted as stored as well.
flush_stats_counts_failed(st, readings, result) ==
    IF result = "True"
    THEN [st EXCEPT !.readings_stored = @ + Len(readings)]
    ELSE [st EXCEPT !.database_errors = @ + 1,
                    !.readings_stored = @ + Len(readings)]

\* Mutant of flush_stats: a stored batch is counted as one reading.
flush_stats_counts_batches(st, readings, result) ==
    IF result = "True"
    THEN [st EXCEPT !.readings_stored = @ + 1]
    ELSE [st EXCEPT !.database_errors = @ + 1]

\* The counters after flush_buffer_to_database got `result` for `readings`
\* (collector.py 256-268).
flush_stats(st, readings, result) ==
    IF result = "True"
    THEN [st EXCEPT !.readings_stored = @ + Len(readings)]
    ELSE [st EXCEPT !.database_errors = @ + 1]

---------------------------------------------------------------------------
(* Initial state: the collector has been constructed (collector.py 183-197), *)
(* run() has installed the signal handler and is about to connect.           *)

\* The record of a driver call: the method, its argument, the deque and
\* last_flush it found, what it returned (result, or data for a list), the
\* lists passed to add_readings since the last get_and_clear (pending), and
\* the number of driver steps so far.
NoCall(n, pending) ==
    [op |-> "none", arg |-> <<>>, before |-> <<>>, last_before |-> 0,
     result |-> "None", data |-> <<>>, pending |-> pending, n |-> n]

InitCommon ==
    /\ running = TRUE
    /\ stats = [readings_collected |-> 0, readings_stored |-> 0,
                connection_errors |-> 0, database_errors |-> 0]
    /\ plc = [client |-> FALSE, connected |-> "None", last_error |-> "None"]
    /\ db = [connection |-> FALSE, connected |-> FALSE]
    /\ dbc = [attempt |-> 0, retry_delay |-> InitialRetryDelay, slept |-> <<>>,
              result |-> "pending"]
    /\ buffer = <<>>
    /\ now = 0
    /\ last_flush = 0
    /\ lock = 0
    /\ writes = <<>>
    /\ env = [polls |-> 0, signals |-> 0, startup |-> 0, read_errors |-> 0,
              read_faults |-> 0, plc_refusals |-> 0, write_failures |-> 0,
              loop_faults |-> 0]
    /\ exit_status = -1
    /\ obs = [stopped |-> FALSE, buffer |-> <<>>, writes |-> 0, drained |-> FALSE,
              iter |-> 0, down_iter |-> 0, down_errors |-> 0, fail_run |-> 0,
              loop_entered |-> FALSE, plc_disconnect |-> "not called",
              db_disconnect |-> "not called"]
    /\ call = NoCall(0, <<>>)

\* DataBuffer(flush_interval, max_size) (collector.py 139-144): the defaults
\* the collector uses, and one small value of each threshold.
BufferConfigs ==
    { [max_size |-> DefaultMaxSize, flush_interval |-> DefaultFlushInterval],
      [max_size |-> SmallMaxSize,   flush_interval |-> DefaultFlushInterval],
      [max_size |-> DefaultMaxSize, flush_interval |-> SmallFlushInterval] }

Init ==
    /\ InitCommon
    /\ stack = <<Frame("db_connect")>>
    /\ \E c \in BufferConfigs :
         /\ max_size = c.max_size
         /\ flush_interval = c.flush_interval

---------------------------------------------------------------------------
(* Startup: run() -> connect_tosystems() (collector.py 282-286, 199-213). *)

\* retry_delay *= 2 (database.py 57)
next_retry_delay(d) == d * 2

\* Mutant of after_failed_attempt: the last failed attempt is followed by a
\* sleep and one more attempt.
after_failed_attempt_one_more(attempt) ==
    IF attempt < MaxRetries THEN "sleep" ELSE "return"

\* if attempt < max_retries - 1: sleep ... else: return False (database.py 55-61)
after_failed_attempt(attempt) ==
    IF attempt < MaxRetries - 1 THEN "sleep" ELSE "return"

\* One turn of the retry loop of IndustrialDatabaseManager.connect
\* (database.py 42-61).  "refused": psycopg2.connect raised; "query_failed":
\* the connection object was stored and SELECT 1 raised.
db_connect ==
    /\ At("db_connect")
    /\ \E outcome \in {"ok", "refused", "query_failed"} :
         IF outcome = "ok"
         THEN /\ db' = [connection |-> TRUE, connected |-> TRUE]
              /\ dbc' = [dbc EXCEPT !.result = "True"]
              /\ stack' = Goto("init_db")
              /\ env' = env
         ELSE LET conn == IF outcome = "query_failed" THEN TRUE ELSE db.connection IN
              /\ Calm({"startup"})
              /\ env' = [env EXCEPT !.startup = @ + 1]
              /\ IF after_failed_attempt(dbc.attempt) = "sleep"
                 THEN /\ db' = [db EXCEPT !.connection = conn]
                      /\ dbc' = dbc
                      /\ stack' = Goto("db_backoff")
                 ELSE \* connect() returns False, connect_tosystems returns False,
                      \* run() returns 1 through its finally clause
                      /\ db' = [connection |-> conn, connected |-> FALSE]
                      /\ dbc' = [dbc EXCEPT !.result = "False"]
                      /\ stack' = SetTop([Top EXCEPT !.pc = "cleanup_plc", !.rv = "1"])
    /\ UNCHANGED <<running, stats, plc, buffer, last_flush, max_size,
                   flush_interval, lock, now, writes, exit_status, obs, call>>

\* time.sleep(retry_delay); retry_delay *= 2 and the next turn (database.py 55-57)
db_connect_backoff ==
    /\ At("db_backoff")
    /\ now' = now + dbc.retry_delay
    /\ dbc' = [dbc EXCEPT !.attempt = @ + 1,
                          !.retry_delay = next_retry_delay(@),
                          !.slept = Append(@, dbc.retry_delay)]
    /\ stack' = Goto("db_connect")
    /\ UNCHANGED <<running, stats, plc, db, buffer, last_flush, max_size,
                   flush_interval, lock, writes, env, exit_status, obs, call>>

\* self.db.initialize_database() (collector.py 206): its result is ignored; an
\* error it does not catch reaches the except clause of run(), which returns 1.
initialize_database ==
    /\ At("init_db")
    /\ \E outcome \in {"returned", "raised"} :
         stack' = IF outcome = "returned"
                  THEN Goto("plc_connect")
                  ELSE SetTop([Top EXCEPT !.pc = "cleanup_plc", !.rv = "1"])
    /\ UNCHANGED <<running, stats, plc, db, dbc, buffer, last_flush, max_size,
                   flush_interval, lock, now, writes, env, exit_status, obs, call>>

\* self.plc.connect() of connect_tosystems (collector.py 208-213)
connect_tosystems_plc ==
    /\ At("plc_connect")
    /\ \E outcome \in PlcOutcomes(plc) :
         /\ plc' = plc_connect(plc, outcome)
         /\ stack' = IF Truthy(plc_connect_result(plc'))
                     THEN Goto("start_stats")
                     ELSE SetTop([Top EXCEPT !.pc = "cleanup_plc", !.rv = "1"])
    /\ UNCHANGED <<running, stats, db, dbc, buffer, last_flush, max_size,
                   flush_interval, lock, now, writes, env, exit_status, obs, call>>

\* Thread(target=self._stats_loop) ... start() (collector.py 289-291), for a
\* collector that has the reporting method.  The sources hold no definition
\* of _stats_loop; it is taken from the specification: a reporting context
\* that only reads the counters.  run() goes on to data_collection_loop().
start_stats_thread ==
    /\ At("start_stats")
    /\ stack' = Goto("loop_while")
    /\ obs' = [obs EXCEPT !.loop_entered = TRUE]
    /\ UNCHANGED <<running, stats, plc, db, dbc, buffer, last_flush, max_size,
                   flush_interval, lock, now, writes, env, exit_status, call>>

\* Thread(target=self._stats_loop) (collector.py 289) for the class as the
\* sources define it (collector.py 182-322): it has no attribute _stats_loop,
\* the lookup raises AttributeError, and the except clause of run() answers
\* with return 1 through the finally clause (collector.py 295-299).
stats_thread_target_missing ==
    /\ At("start_stats")
    /\ stack' = SetTop([Top EXCEPT !.pc = "cleanup_plc", !.rv = "1"])
    /\ UNCHANGED <<running, stats, plc, db, dbc, buffer, last_flush, max_size,
                   flush_interval, lock, now, writes, env, exit_status, obs, call>>

---------------------------------------------------------------------------
(* data_collection_loop (collector.py 216-245). *)

\* while self.running.is_set(): (collector.py 223).  When the flag is clear
\* the loop returns and run() goes to its finally clause.
loop_while ==
    /\ At("loop_while")
    /\ stack' = SetTop([Frame(IF running THEN "loop_conn" ELSE "cleanup_plc")
                           EXCEPT !.rv = Top.rv])
    /\ obs' = IF running THEN [obs EXCEPT !.iter = @ + 1] ELSE obs
    /\ UNCHANGED <<running, stats, plc, db, dbc, buffer, last_flush, max_size,
                   flush_interval, lock, now, writes, env, exit_status, call>>

\* if not self.plc.connected: if not self.plc.connect(): ... (collector.py 226-230)
loop_ensure_connection ==
    /\ At("loop_conn")
    /\ IF Truthy(plc.connected)
       THEN /\ stack' = Goto("read_sensors")
            /\ UNCHANGED <<plc, stats, env, obs>>
       ELSE \E outcome \in PlcOutcomes(plc) :
              /\ outcome # "ok" => /\ env.plc_refusals < MaxPlcRefusals
                                    /\ Calm({"read_faults", "plc_refusals"})
              /\ plc' = plc_connect(plc, outcome)
              /\ IF Truthy(plc_connect_result(plc'))
                 THEN /\ stack' = SetTop([Top EXCEPT !.pc = "read_sensors",
                                                     !.attempts = @ + 1])
                      /\ obs' = IF obs.fail_run = 0
                                THEN [obs EXCEPT !.down_iter = obs.iter,
                                                 !.down_errors = stats.connection_errors]
                                ELSE obs
                      /\ UNCHANGED <<stats, env>>
                 ELSE /\ stats' = connect_failure_stats(stats)
                      /\ env' = [env EXCEPT !.plc_refusals = @ + 1]
                      /\ obs' = [obs EXCEPT
                                   !.fail_run = @ + 1,
                                   !.down_iter = IF obs.fail_run = 0 THEN obs.iter ELSE @,
                                   !.down_errors = IF obs.fail_run = 0
                                                   THEN stats.connection_errors ELSE @]
                      /\ stack' = SetTop([Top EXCEPT !.pc = "loop_backoff",
                                                     !.attempts = @ + 1])
    /\ UNCHANGED <<running, db, dbc, buffer, last_flush, max_size,
                   flush_interval, lock, now, writes, exit_status, call>>

\* time.sleep(10); continue (collector.py 229-230)
loop_backoff ==
    /\ At("loop_backoff")
    /\ now' = now + ConnectBackoff
    /\ stack' = Goto("loop_while")
    /\ UNCHANGED <<running, stats, plc, db, dbc, buffer, last_flush, max_size,
                   flush_interval, lock, writes, env, exit_status, obs, call>>

\* readings = self.plc.read_sensors(): entry of read_sensors (collector.py 79-85).
\* The polls explored are bounded while the collector is running; the poll of
\* an iteration that a stop request found in progress always goes ahead.
read_sensors_begin ==
    /\ At("read_sensors")
    /\ env.polls < MaxPolls \/ ~running
    /\ env' = [env EXCEPT !.polls = @ + 1]
    /\ stack' = IF ~Truthy(plc.connected)
                THEN SetTop([Top EXCEPT !.pc = "if_readings", !.readings = <<>>,
                                        !.polled = TRUE])
                ELSE SetTop([Top EXCEPT !.pc = "read_channel", !.readings = <<>>,
                                        !.timestamp = now, !.ch = 1, !.polled = TRUE])
    /\ obs' = [obs EXCEPT !.fail_run = 0]
    /\ UNCHANGED <<running, stats, plc, db, dbc, buffer, last_flush, max_size,
                   flush_interval, lock, now, writes, exit_status, call>>

\* One turn of the for loop of read_sensors (collector.py 88-121): the read of
\* channel ch answers with a value, with a protocol error, or raises.
read_sensors_channel ==
    /\ At("read_channel")
    /\ \E outcome \in {"ok", "error", "raised"} :
         /\ outcome = "error" => /\ env.read_errors < MaxReadErrors
                                 /\ Calm({"read_errors"})
         /\ outcome = "raised" => /\ env.read_faults < MaxReadFaults
                                  /\ Calm({"read_faults", "plc_refusals"})
         /\ env' = [env EXCEPT
                      !.read_errors = IF outcome = "error" THEN @ + 1 ELSE @,
                      !.read_faults = IF outcome = "raised" THEN @ + 1 ELSE @]
         /\ LET rs == read_channel(Top.readings, Top.ch, Top.timestamp, outcome) IN
            /\ plc' = IF outcome = "raised"
                       THEN [plc EXCEPT !.connected = "False"]
                       ELSE plc
            /\ stack' = IF after_channel(Top.ch, outcome) = "next"
                        THEN SetTop([Top EXCEPT !.readings = rs, !.ch = @ + 1,
                                                !.answers = Append(@, outcome)])
                        ELSE SetTop([Top EXCEPT !.pc = "if_readings",
                                                !.readings = rs,
                                                !.ch = 0, !.timestamp = 0,
                                                !.answers = Append(@, outcome)])
    /\ UNCHANGED <<running, stats, db, dbc, buffer, last_flush, max_size,
                   flush_interval, lock, now, writes, exit_status, obs, call>>

\* if readings: (collector.py 233); add_readings is entered with a non-empty list
loop_if_readings ==
    /\ At("if_readings")
    /\ stack' = Goto(IF Top.readings # <<>> THEN "add_acquire" ELSE "sleep")
    /\ UNCHANGED <<running, stats, plc, db, dbc, buffer, last_flush, max_size,
                   flush_interval, lock, now, writes, env, exit_status, obs, call>>

\* with self.lock: of add_readings (collector.py 156).  threading.Lock is not
\* reentrant: a frame that finds it held by a frame below it waits for ever.
add_readings_acquire ==
    /\ At("add_acquire")
    /\ lock = 0
    /\ lock' = Depth
    /\ stack' = Goto("add_extend")
    /\ UNCHANGED <<running, stats, plc, db, dbc, buffer, last_flush, max_size,
                   flush_interval, now, writes, env, exit_status, obs, call>>

\* self.buffer.extend(readings); buffer_size = len(self.buffer) (collector.py 157-158)
add_readings_extend ==
    /\ At("add_extend")
    /\ buffer' = add_readings_buffer(buffer, Top.readings)
    /\ stack' = SetTop([Top EXCEPT !.pc = "add_release", !.buffer_size = Len(buffer')])
    /\ UNCHANGED <<running, stats, plc, db, dbc, last_flush, max_size,
                   flush_interval, lock, now, writes, env, exit_status, obs, call>>

\* leaving the with block, then the size check and return (collector.py 160-167)
add_readings_release ==
    /\ At("add_release")
    /\ lock' = 0
    /\ stack' = SetTop([Top EXCEPT !.pc = "count", !.buffer_size = 0,
                          !.force_flush = force_flush_signal(Top.buffer_size, max_size)])
    /\ UNCHANGED <<running, stats, plc, db, dbc, buffer, last_flush, max_size,
                   flush_interval, now, writes, env, exit_status, obs, call>>

\* self.stats["readings_collected"] += len(readings) (collector.py 235)
loop_count ==
    /\ At("count")
    /\ stats' = [stats EXCEPT !.readings_collected = @ + Len(Top.readings)]
    /\ stack' = Goto("trigger")
    /\ UNCHANGED <<running, plc, db, dbc, buffer, last_flush, max_size,
                   flush_interval, lock, now, writes, env, exit_status, obs, call>>

\* if force_flush or self.buffer.should_flush(): self.flush_buffer_to_database()
\* (collector.py 237-238)
loop_flush_trigger ==
    /\ At("trigger")
    /\ stack' = IF Top.force_flush \/ should_flush(now, last_flush, flush_interval)
                THEN SetTop([Top EXCEPT !.pc = "gc_acquire", !.ret = "sleep"])
                ELSE Goto("sleep")
    /\ UNCHANGED <<running, stats, plc, db, dbc, buffer, last_flush, max_size,
                   flush_interval, lock, now, writes, env, exit_status, obs, call>>

\* Mutant of loop_except_stats: the absorbed fault is not counted.
loop_except_stats_dropped(st) == st

\* self.stats['connection_errors'] += 1 (collector.py 244)
loop_except_stats(st) == [st EXCEPT !.connection_errors = @ + 1]

\* The statements of the try body of the loop (collector.py 226-240) that run
\* outside the try blocks of read_sensors, PLCConnection.connect and
\* flush_buffer_to_database: an exception raised there reaches the except
\* clause of the loop.
LoopBodyUnguarded ==
    {"loop_conn", "read_sensors", "if_readings", "add_acquire", "add_extend",
     "add_release", "count", "trigger", "gc_acquire", "gc_body", "gc_release"}

\* except Exception as e: connection_errors += 1; time.sleep(5)
\* (collector.py 242-245), entered when a statement of the loop body raises
\* an exception nothing below the loop catches (a MemoryError, say).  A with
\* block that is unwound releases the lock.
loop_except ==
    /\ Depth = 1
    /\ Top.pc \in LoopBodyUnguarded
    /\ env.loop_faults < MaxLoopFaults
    /\ Calm({"loop_faults"})
    /\ env' = [env EXCEPT !.loop_faults = @ + 1]
    /\ stats' = loop_except_stats(stats)
    /\ lock' = IF lock = Depth THEN 0 ELSE lock
    /\ now' = now + LoopRecoveryDelay
    /\ stack' = SetTop([Top EXCEPT !.pc = "loop_while", !.ret = "", !.batch = <<>>])
    /\ UNCHANGED <<running, plc, db, dbc, buffer, last_flush, max_size,
                   flush_interval, writes, exit_status, obs, call>>

\* time.sleep(read_interval) (collector.py 240)
loop_sleep ==
    /\ At("sleep")
    /\ now' = now + ReadInterval
    /\ stack' = Goto("loop_while")
    /\ UNCHANGED <<running, stats, plc, db, dbc, buffer, last_flush, max_size,
                   flush_interval, lock, writes, env, exit_status, obs, call>>

---------------------------------------------------------------------------
(* flush_buffer_to_database (collector.py 248-268), run by the frame that   *)
(* called it: the poll loop (ret = "sleep") or shutdown() (ret = "sh_done"). *)

\* with self.lock: of get_and_clear (collector.py 175)
get_and_clear_acquire ==
    /\ At("gc_acquire")
    /\ lock = 0
    /\ lock' = Depth
    /\ stack' = Goto("gc_body")
    /\ UNCHANGED <<running, stats, plc, db, dbc, buffer, last_flush, max_size,
                   flush_interval, now, writes, env, exit_status, obs, call>>

\* data = list(self.buffer); self.buffer.clear(); self.last_flush = time.time()
\* (collector.py 176-178)
get_and_clear_body ==
    /\ At("gc_body")
    /\ LET r == get_and_clear(buffer, now, last_flush) IN
         /\ buffer' = r.buffer
         /\ last_flush' = r.last_flush
         /\ stack' = SetTop([Top EXCEPT !.pc = "gc_release", !.batch = r.data])
    /\ obs' = IF Top.ret = "sh_done" THEN [obs EXCEPT !.drained = TRUE] ELSE obs
    /\ UNCHANGED <<running, stats, plc, db, dbc, max_size,
                   flush_interval, lock, now, writes, env, exit_status, call>>

\* return data, leaving the with block; if not readings: return None
\* (collector.py 179, 249-252)
get_and_clear_release ==
    /\ At("gc_release")
    /\ lock' = 0
    /\ stack' = IF after_drain(Top.batch) = "return" THEN Return ELSE Goto("bulk_insert")
    /\ UNCHANGED <<running, stats, plc, db, dbc, buffer, last_flush, max_size,
                   flush_interval, now, writes, env, exit_status, obs, call>>

\* success = self.db.bulk_insert_readings(readings) and the counter update
\* (collector.py 256-268)
flush_bulk_insert ==
    /\ At("bulk_insert")
    /\ \E outcome \in {"ok", "db_error", "raised"} :
         /\ outcome # "ok" => /\ env.write_failures < MaxWriteFailures
                               /\ Calm({"write_failures"})
         /\ LET result == bulk_insert_readings(Top.batch, db.connected, outcome) IN
            /\ env' = [env EXCEPT !.write_failures =
                          IF outcome # "ok" /\ db.connected THEN @ + 1 ELSE @]
            /\ writes' = Append(writes, [batch |-> Top.batch, result |-> result])
            /\ stats' = flush_stats(stats, Top.batch, result)
    /\ stack' = Return
    /\ UNCHANGED <<running, plc, db, dbc, buffer, last_flush, max_size,
                   flush_interval, lock, now, exit_status, obs, call>>

---------------------------------------------------------------------------
(* The stop request: SIGINT -> _signal_handler -> shutdown()               *)
(* (collector.py 275-280, 314-322).  CPython runs the handler in the main  *)
(* thread between two bytecodes of whatever that thread is executing, a    *)
(* handler included.                                                       *)

\* The handler is entered and shutdown() clears the flag (collector.py
\* 276-319); its flush_buffer_to_database() follows in the new frame.
signal_handler ==
    /\ exit_status = -1
    /\ env.signals < MaxSignals
    /\ env.signals >= 1 => Calm({})
    /\ env' = [env EXCEPT !.signals = @ + 1]
    /\ running' = FALSE
    /\ stack' = Append(stack, [Frame("gc_acquire") EXCEPT !.ret = "sh_done"])
    /\ obs' = IF obs.stopped THEN obs
              ELSE [obs EXCEPT !.stopped = TRUE, !.buffer = buffer,
                               !.writes = Len(writes)]
    /\ UNCHANGED <<stats, plc, db, dbc, buffer, last_flush, max_size,
                   flush_interval, lock, now, writes, exit_status, call>>

---------------------------------------------------------------------------
(* finally: self.cleanup() (collector.py 298-311) and the exit status      *)
(* (collector.py 353-358).                                                 *)

\* Mutant of exit_code: the process always reports success.
exit_code_zero(rv) == 0

\* The exit status of the entry point (collector.py 353-358), given how run()
\* ended: sys.exit(None) is status 0, sys.exit(1) is status 1, and an
\* exception out of run() is caught and answered with sys.exit(1).
exit_code(rv) == IF rv = "None" THEN 0 ELSE 1

\* self.plc.disconnect() (collector.py 124-131); client.close() may raise, and
\* nothing up to the entry point catches it before sys.exit(1).
cleanup_plc_disconnect ==
    /\ At("cleanup_plc")
    /\ \E outcome \in {"closed", "raised"} :
         LET r == plc_disconnect(plc, outcome) IN
         /\ plc' = r.plc
         /\ obs' = [obs EXCEPT !.plc_disconnect =
                                 IF r.result = "None" THEN "returned" ELSE "raised"]
         /\ IF r.result = "None"
            THEN /\ stack' = Goto("cleanup_db")
                 /\ UNCHANGED exit_status
            ELSE /\ stack' = Goto("exited")
                 /\ exit_status' = exit_code("raise")
    /\ UNCHANGED <<running, stats, db, dbc, buffer, last_flush, max_size,
                   flush_interval, lock, now, writes, env, call>>

\* self.db.disconnect() (database.py 314-324), then run() returns: rv is the
\* value run() returns, None giving exit status 0.
cleanup_db_disconnect ==
    /\ At("cleanup_db")
    /\ \E outcome \in {"closed", "raised"} :
         db' = IF db.connection /\ outcome = "closed"
               THEN [db EXCEPT !.connected = FALSE]
               ELSE db
    /\ stack' = Goto("exited")
    /\ exit_status' = exit_code(Top.rv)
    /\ obs' = [obs EXCEPT !.db_disconnect = "returned"]
    /\ UNCHANGED <<running, stats, plc, dbc, buffer, last_flush, max_size,
                   flush_interval, lock, now, writes, env, call>>

---------------------------------------------------------------------------

Next ==
    \/ db_connect
    \/ db_connect_backoff
    \/ initialize_database
    \/ connect_tosystems_plc
    \/ start_stats_thread
    \/ stats_thread_target_missing
    \/ loop_while
    \/ loop_ensure_connection
    \/ loop_backoff
    \/ read_sensors_begin
    \/ read_sensors_channel
    \/ loop_if_readings
    \/ add_readings_acquire
    \/ add_readings_extend
    \/ add_readings_release
    \/ loop_count
    \/ loop_flush_trigger
    \/ loop_sleep
    \/ loop_except
    \/ get_and_clear_acquire
    \/ get_and_clear_body
    \/ get_and_clear_release
    \/ flush_bulk_insert
    \/ signal_handler
    \/ cleanup_plc_disconnect
    \/ cleanup_db_disconnect

Spec == Init /\ [][Next]_vars

\* The steps of the program itself: everything but the deliveries of SIGINT
\* and the exceptions the environment injects into the loop body.
ProgramStep ==
    \/ db_connect
    \/ db_connect_backoff
    \/ initialize_database
    \/ connect_tosystems_plc
    \/ start_stats_thread
    \/ stats_thread_target_missing
    \/ loop_while
    \/ loop_ensure_connection
    \/ loop_backoff
    \/ read_sensors_begin
    \/ read_sensors_channel
    \/ loop_if_readings
    \/ add_readings_acquire
    \/ add_readings_extend
    \/ add_readings_release
    \/ loop_count
    \/ loop_flush_trigger
    \/ loop_sleep
    \/ get_and_clear_acquire
    \/ get_and_clear_body
    \/ get_and_clear_release
    \/ flush_bulk_insert
    \/ cleanup_plc_disconnect
    \/ cleanup_db_disconnect

\* The collector with a main thread that keeps running: whenever the thread
\* can take a step it eventually takes one (every call it makes returns).
SpecLive == Spec /\ WF_vars(ProgramStep)

---------------------------------------------------------------------------
(* The DataBuffer on its own: a single caller drives its three methods     *)
(* (collector.py 149-179) with every argument and at every time within the *)
(* bounds.  Each call runs to completion, so the lock is free between      *)
(* steps.                                                                  *)

\* The lists the driver passes: the first k channels read at time t.
Batches(t) ==
    { [i \in 1..k |-> Reading(sensor_map[i], t)] : k \in 0..MaxBatch }

\* The time that may pass between two calls.
Elapses == {1, flush_interval - 1, flush_interval}

buffer_add_readings ==
    /\ call.n < MaxCalls
    /\ \E readings \in Batches(now) :
         LET r == add_readings(buffer, readings, max_size) IN
         /\ buffer' = r.buffer
         /\ call' = [op |-> "add_readings", arg |-> readings, before |-> buffer,
                     last_before |-> last_flush, result |-> r.result, data |-> <<>>,
                     pending |-> call.pending \o readings, n |-> call.n + 1]
    /\ UNCHANGED <<stack, running, stats, plc, db, dbc, last_flush, max_size,
                   flush_interval, lock, now, writes, env, exit_status, obs>>

buffer_should_flush ==
    /\ call.n < MaxCalls
    /\ call' = [op |-> "should_flush", arg |-> <<>>, before |-> buffer,
                last_before |-> last_flush,
                result |-> IF should_flush(now, last_flush, flush_interval)
                           THEN "True" ELSE "False",
                data |-> <<>>, pending |-> call.pending, n |-> call.n + 1]
    /\ UNCHANGED <<stack, running, stats, plc, db, dbc, buffer, last_flush, max_size,
                   flush_interval, lock, now, writes, env, exit_status, obs>>

buffer_get_and_clear ==
    /\ call.n < MaxCalls
    /\ LET r == get_and_clear(buffer, now, last_flush) IN
         /\ buffer' = r.buffer
         /\ last_flush' = r.last_flush
         /\ call' = [op |-> "get_and_clear", arg |-> call.pending, before |-> buffer,
                     last_before |-> last_flush, result |-> "None", data |-> r.data,
                     pending |-> <<>>, n |-> call.n + 1]
    /\ UNCHANGED <<stack, running, stats, plc, db, dbc, max_size,
                   flush_interval, lock, now, writes, env, exit_status, obs>>

\* Time passes between two calls.
buffer_elapse ==
    /\ call.n < MaxCalls
    /\ \E d \in Elapses : now' = now + d
    /\ call' = NoCall(call.n + 1, call.pending)
    /\ UNCHANGED <<stack, running, stats, plc, db, dbc, buffer, last_flush, max_size,
                   flush_interval, lock, writes, env, exit_status, obs>>

InitBuffer ==
    /\ InitCommon
    /\ stack = <<Frame("driver")>>
    /\ \E c \in BufferConfigs :
         /\ max_size = c.max_size
         /\ flush_interval = c.flush_interval

NextBuffer ==
    \/ buffer_add_readings
    \/ buffer_should_flush
    \/ buffer_get_and_clear
    \/ buffer_elapse

SpecBuffer == InitBuffer /\ [][NextBuffer]_vars

---------------------------------------------------------------------------
(* The PLCConnection on its own: a single caller drives connect() and      *)
(* disconnect() (collector.py 46-68, 124-131) from the state __init__      *)
(* leaves, with every outcome of the Modbus client.                        *)

\* The record of a device call: the method, what the client did, the fields
\* found, how the call ended (the value returned, or "raise"), the method
\* called before it and how that one ended, and the number of calls so far.
DeviceCall(op, arg, before, result) ==
    [op |-> op, arg |-> arg, before |-> before, result |-> result,
     prev |-> [op |-> call.op, result |-> call.result], n |-> call.n + 1]

device_connect ==
    /\ call.n < MaxCalls
    /\ \E outcome \in PlcOutcomes(plc) :
         /\ plc' = plc_connect(plc, outcome)
         /\ call' = DeviceCall("connect", outcome, plc, plc_connect_result(plc'))
    /\ UNCHANGED <<stack, running, stats, db, dbc, buffer, last_flush, max_size,
                   flush_interval, lock, now, writes, env, exit_status, obs>>

device_disconnect ==
    /\ call.n < MaxCalls
    /\ \E outcome \in {"closed", "raised"} :
         LET r == plc_disconnect(plc, outcome) IN
         /\ plc' = r.plc
         /\ call' = DeviceCall("disconnect", outcome, plc, r.result)
    /\ UNCHANGED <<stack, running, stats, db, dbc, buffer, last_flush, max_size,
                   flush_interval, lock, now, writes, env, exit_status, obs>>

InitDevice ==
    /\ InitCommon
    /\ stack = <<Frame("driver")>>
    /\ max_size = DefaultMaxSize
    /\ flush_interval = DefaultFlushInterval

NextDevice ==
    \/ device_connect
    \/ device_disconnect

SpecDevice == InitDevice /\ [][NextDevice]_vars

---------------------------------------------------------------------------
(* Properties. *)

\* The readings of a list, as a set.
Elems(seq) == { seq[i] : i \in 1..Len(seq) }

\* run() is in its poll loop proper (not in a signal handler above it).
MainAt(p) == Depth = 1 /\ Main.pc = p

\* C1 (shutdown durability): if N >= 1 readings are buffered when the first
\* stop request is issued and every bulk write from then on succeeds, then
\* once run() has returned storage has received exactly one more bulk write,
\* its batch is exactly those N readings, and the buffer is empty -- wherever
\* in the loop iteration the request arrived.
C1_ShutdownDurability ==
    ( /\ Main.pc = "exited"
      /\ obs.stopped
      /\ Len(obs.buffer) >= 1
      /\ \A i \in (obs.writes + 1)..Len(writes) : writes[i].result = "True" )
    => ( /\ buffer = <<>>
         /\ Len(writes) = obs.writes + 1
         /\ writes[obs.writes + 1].batch = obs.buffer )

\* C2 (shutdown ordering): stop polling, final flush, disconnect.  Once a
\* shutdown flush has drained the buffer no reading is appended to it, and
\* no bulk write is made after cleanup has disconnected the device.
C2_ShutdownOrdering ==
    [][ /\ obs.drained => Len(buffer') <= Len(buffer)
        /\ Len(writes') > Len(writes) => Main.pc \notin {"cleanup_db", "exited"}
      ]_vars

\* C3 (at-most-once storage): a bulk write that reports failure or raises
\* adds exactly 1 to database_errors, leaves readings_stored and the buffer
\* as they are, and no reading of its batch is in the buffer or in a later
\* bulk write afterwards.
C3_AtMostOnce ==
    [][ /\ ( /\ Len(writes') = Len(writes) + 1
             /\ writes'[Len(writes')].result # "True" )
           => ( /\ stats'.database_errors = stats.database_errors + 1
                /\ stats'.readings_stored = stats.readings_stored
                /\ buffer' = buffer )
        /\ \A i \in 1..Len(writes') :
             writes'[i].result # "True"
               => /\ Elems(writes'[i].batch) \cap Elems(buffer') = {}
                  /\ \A j \in (i + 1)..Len(writes') :
                       Elems(writes'[i].batch) \cap Elems(writes'[j].batch) = {}
      ]_vars

\* C3 witness: a bulk write has failed and a later bulk write has been made.
C3_Witness ==
    \E i \in 1..Len(writes) : writes[i].result # "True" /\ i < Len(writes)

\* C4 (empty flush): a flush that drains an empty buffer returns without a
\* bulk write and without changing readings_stored or database_errors, and
\* every batch handed to storage is non-empty.
C4_EmptyFlushSkipsStorage ==
    [][ /\ ( /\ Top.pc \in {"gc_acquire", "gc_body", "gc_release"}
             /\ Top.pc = "gc_release" => Top.batch = <<>>
             /\ Top.pc = "gc_acquire" => buffer = <<>> )
           => /\ writes' = writes
              /\ stats'.readings_stored = stats.readings_stored
              /\ stats'.database_errors = stats.database_errors
        /\ \A i \in 1..Len(stack') :
             stack'[i].pc = "bulk_insert" => stack'[i].batch # <<>>
        /\ \A i \in 1..Len(writes') : writes'[i].batch # <<>>
      ]_vars

\* C4 witness: a shutdown flush found the buffer empty and has returned; no
\* bulk write was ever made.
C4_Witness ==
    obs.drained /\ Depth = 1 /\ writes = <<>> /\ stats.readings_collected > 0

\* C5 (dual trigger): in an iteration that got past the connection check,
\* when the loop reaches its poll sleep with the size signal raised or the
\* time trigger true, a flush has been performed (the buffer is drained),
\* whether or not the read returned readings.
C5_DualTrigger ==
    ( /\ MainAt("sleep")
      /\ Main.force_flush \/ should_flush(now, last_flush, flush_interval) )
    => buffer = <<>>

---------------------------------------------------------------------------
(* Properties of the DataBuffer methods, checked under SpecBuffer. *)

\* C6 as claimed (DataBuffer.add_readings): for every buffer content and
\* every input list, add appends the list and returns true iff the length
\* after the append is >= max_size; an empty input leaves the buffer as it is
\* and requests no flush.
C6_AddSignalsAtMaxSize ==
    call.op = "add_readings"
    => /\ buffer = call.before \o call.arg
       /\ (call.result = "True") <=> (Len(buffer) >= max_size)
       /\ call.arg = <<>> => (buffer = call.before /\ call.result # "True")

\* C6 as amended: add appends the list; for a non-empty input it returns
\* True iff the length after the append is >= max_size and False otherwise,
\* whatever time has passed since last_flush (max_size = 3: three readings
\* into an empty buffer signal, two do not); for an empty input it leaves the
\* buffer as it is and returns None, also when the buffer already holds
\* max_size readings or more.
C6_AddSignalsNonEmpty ==
    call.op = "add_readings"
    => /\ buffer = call.before \o call.arg
       /\ call.arg # <<>>
            => /\ call.result \in {"True", "False"}
               /\ (call.result = "True") <=> (Len(call.before) + Len(call.arg) >= max_size)
       /\ (max_size = 3 /\ call.before = <<>> /\ Len(call.arg) = 3) => call.result = "True"
       /\ (max_size = 3 /\ call.before = <<>> /\ Len(call.arg) = 2) => call.result = "False"
       /\ call.arg = <<>> => (buffer = call.before /\ call.result = "None")

\* C6 witness: the size signal is raised by an append that reaches max_size
\* exactly, at a moment when the time trigger is false.
C6_Witness ==
    /\ call.op = "add_readings"
    /\ call.result = "True"
    /\ Len(buffer) = max_size
    /\ now - last_flush < flush_interval

\* C7 (DataBuffer.get_and_clear): it returns exactly the readings passed to
\* add_readings since the previous get_and_clear, in the order they were
\* added, and leaves the buffer empty; no other method removes or reorders
\* readings of the buffer.
C7_DrainReturnsAppended ==
    [][ /\ call'.op = "get_and_clear" => (call'.data = call'.arg /\ buffer' = <<>>)
        /\ call'.op # "get_and_clear"
             => /\ Len(buffer') >= Len(buffer)
                /\ SubSeq(buffer', 1, Len(buffer)) = buffer
      ]_vars

\* C7 witness: a drain has returned readings of two add_readings calls.
C7_Witness ==
    /\ call.op = "get_and_clear"
    /\ \E i, j \in 1..Len(call.data) :
         i < j /\ call.data[i].timestamp < call.data[j].timestamp

\* C8 (drain idempotence): get_and_clear on an empty buffer returns an empty
\* list, leaves the buffer empty and still sets last_flush to the current
\* time; only get_and_clear changes last_flush; right after any
\* get_and_clear the time trigger is false.
C8_DrainIdempotence ==
    [][ /\ (call'.op = "get_and_clear" /\ call'.before = <<>>)
             => (call'.data = <<>> /\ buffer' = <<>>)
        /\ call'.op = "get_and_clear"
             => /\ last_flush' = now'
                /\ ~should_flush(now', last_flush', flush_interval')
        /\ last_flush' # last_flush => call'.op = "get_and_clear"
      ]_vars

\* C8 witness: a drain of an empty buffer has moved last_flush.
C8_Witness ==
    /\ call.op = "get_and_clear"
    /\ call.before = <<>>
    /\ call.last_before < last_flush

\* C9 (time trigger): should_flush returns true iff now - last_flush >=
\* flush_interval, whatever the buffer holds; with flush_interval = 30 it is
\* false while fewer than 30 time units have passed and true at 30 and after.
C9_TimeTrigger ==
    call.op = "should_flush"
    => /\ (call.result = "True") <=> (now >= last_flush + flush_interval)
       /\ call.result \in {"True", "False"}
       /\ flush_interval = 30
            => /\ (now - last_flush) \in 0..29 => call.result = "False"
               /\ (now - last_flush) >= 30 => call.result = "True"

\* C9 witness: should_flush is asked exactly flush_interval = 30 after
\* last_flush, with readings in the buffer.
C9_Witness ==
    /\ call.op = "should_flush"
    /\ flush_interval = 30
    /\ now - last_flush = 30
    /\ buffer # <<>>
    /\ call.result = "True"

---------------------------------------------------------------------------
(* The reconnect loop, checked under Spec. *)

\* C10, in a state: every failed connect() of the loop has added exactly 1
\* to connection_errors; an iteration makes at most one connect() call; an
\* iteration whose connect() failed reads no channel; when connect() succeeds
\* after k failures, connection_errors has grown by exactly k and the
\* iteration that polls again is the (k+1)-th since the device was found down.
ReconnectLoopState ==
    /\ stats.connection_errors = env.plc_refusals + env.loop_faults
    /\ Main.attempts <= 1
    /\ Main.pc = "loop_backoff"
         => (Main.attempts = 1 /\ ~Main.polled /\ ~Truthy(plc.connected))
    /\ (Main.pc = "read_sensors" /\ Main.attempts = 1)
         => /\ Truthy(plc.connected)
            /\ stats.connection_errors = obs.down_errors + obs.fail_run
            /\ obs.iter = obs.down_iter + obs.fail_run

\* C10 (reconnect loop): ReconnectLoopState always holds, and the step after
\* a failed connect() is the fixed backoff sleep, which leads back to the top
\* of the loop.
C10_ReconnectLoop ==
    [][ /\ ReconnectLoopState'
        /\ (MainAt("loop_backoff") /\ Len(stack') = 1 /\ stack' # stack)
             => (now' = now + 10 /\ stack'[1].pc = "loop_while")
      ]_vars

\* C10 witness: connect() has failed 3 times and then succeeded; the loop is
\* about to poll in the 4th iteration.
C10_Witness ==
    /\ MainAt("read_sensors")
    /\ Main.attempts = 1
    /\ obs.fail_run = 3
    /\ obs.iter = obs.down_iter + 3

---------------------------------------------------------------------------
(* Faults in the poll loop, checked under Spec. *)

\* The positions of run() inside data_collection_loop.
LoopPcs ==
    {"loop_while", "loop_conn", "loop_backoff", "read_sensors", "read_channel",
     "if_readings", "add_acquire", "add_extend", "add_release", "count",
     "trigger", "sleep", "gc_acquire", "gc_body", "gc_release", "bulk_insert"}

\* A step of the poll loop in which a device read raised.
ReadFaultStep == env'.read_faults = env.read_faults + 1

\* A step of the poll loop in which a bulk write of the loop raised.
LoopWriteFaultStep ==
    /\ Depth = 1
    /\ Len(writes') = Len(writes) + 1
    /\ writes'[Len(writes')].result = "raise"

\* A step in which an exception reached the except clause of the loop.
LoopFaultStep == env'.loop_faults = env.loop_faults + 1

\* The loop is left only by its while test finding the flag clear, and then
\* by a plain return (run() has no exception to report).
LoopLeftByFlagOnly ==
    (Main.pc \in LoopPcs /\ stack'[1].pc \notin LoopPcs)
    => /\ ~running
       /\ Main.pc = "loop_while"
       /\ stack'[1].pc = "cleanup_plc"
       /\ stack'[1].rv = "None"

\* C11 as claimed (loop exception-safety): every fault raised inside the loop
\* body -- by a device read, by the bulk write of a flush, or by any other
\* statement -- adds exactly 1 to connection_errors and leads back into the
\* loop; the loop is left only once the running flag is clear.
C11_EveryFaultCountsAsConnectionError ==
    [][ /\ (ReadFaultStep \/ LoopWriteFaultStep \/ LoopFaultStep)
             => /\ stats'.connection_errors = stats.connection_errors + 1
                /\ stack'[1].pc \in LoopPcs
        /\ LoopLeftByFlagOnly
      ]_vars

\* C11 as amended: a fault that reaches the loop level adds exactly 1 to
\* connection_errors, is followed by the 5 s recovery sleep and by the next
\* test of the running flag; a fault raised by a device read is absorbed in
\* read_sensors (connected becomes false, no counter changes); a fault raised
\* by a bulk write is absorbed in the flush (database_errors + 1,
\* connection_errors unchanged); in each case the loop goes on, and it is
\* left only once the running flag is clear, never by an exception.
C11_LoopExceptionSafety ==
    [][ /\ LoopFaultStep
             => /\ stats' = [stats EXCEPT !.connection_errors = @ + 1]
                /\ now' = now + 5
                /\ stack'[1].pc = "loop_while"
                /\ lock' = 0
        /\ ReadFaultStep
             => /\ stats' = stats
                /\ plc'.connected = "False"
                /\ stack'[Depth].pc = "if_readings"
        /\ LoopWriteFaultStep
             => /\ stats' = [stats EXCEPT !.database_errors = @ + 1]
                /\ stack'[1].pc = "sleep"
        /\ LoopLeftByFlagOnly
      ]_vars

\* C11 witness: an exception was absorbed by the except clause of the loop
\* and a later iteration is reading the device.
C11_Witness ==
    /\ env.loop_faults = 1
    /\ stats.connection_errors = 1
    /\ MainAt("read_channel")
    /\ obs.iter >= 2

---------------------------------------------------------------------------
(* PLCConnection.read_sensors, checked under Spec. *)

\* The channels (indices of sensor_map) that answered "ok", in table order.
OkChannels(answers) ==
    SelectSeq([i \in 1..Len(answers) |-> i], LAMBDA i : answers[i] = "ok")

\* The number of channel reads answered with `outcome`.
Count(answers, outcome) ==
    Cardinality({i \in 1..Len(answers) : answers[i] = outcome})

\* read_sensors has returned to the loop from a call made while connected.
ReadReturned == Main.pc = "if_readings" /\ Main.answers # <<>>

\* C12 (partial-batch read): when read_sensors ran connected and no channel
\* read raised, every channel was read once, the list returned holds exactly
\* one reading for every channel that did not answer with a protocol error,
\* in channel-table order, and none for the others; all of them carry the one
\* timestamp taken at the call; connected is still true; with 2 of 5 channels
\* in error exactly 3 readings are returned.
C12_PartialBatchRead ==
    (ReadReturned /\ Count(Main.answers, "raised") = 0)
    => LET ok == OkChannels(Main.answers) IN
       /\ Len(Main.answers) = Len(sensor_map)
       /\ Main.readings = [k \in 1..Len(ok) |-> Reading(sensor_map[ok[k]], now)]
       /\ Len(Main.readings) = Len(sensor_map) - Count(Main.answers, "error")
       /\ plc.connected = "True"
       /\ Count(Main.answers, "error") = 2 => Len(Main.readings) = 3

\* C12 witness: a read in which channels 2 and 4 answered with a protocol
\* error has returned.
C12_Witness ==
    /\ ReadReturned
    /\ Main.answers = <<"ok", "error", "ok", "error", "ok">>
    /\ Len(Main.readings) = 3

\* The positions of the loop iteration after read_sensors has returned.
AfterReadPcs ==
    {"if_readings", "add_acquire", "add_extend", "add_release", "count",
     "trigger", "sleep", "gc_acquire", "gc_body", "gc_release", "bulk_insert"}

\* C13 (fatal read fault): when a channel read raises, read_sensors reads no
\* further channel, sets connected to false, returns to the loop instead of
\* raising, and the list it returns holds exactly the readings of the
\* channels read before the fault.
C13_FatalReadFault ==
    Count(Main.answers, "raised") >= 1
    => LET n == Len(Main.answers) IN
       /\ Main.answers[n] = "raised"
       /\ Count(Main.answers, "raised") = 1
       /\ Main.pc \in AfterReadPcs \cup {"loop_while"}
       /\ Main.pc \in AfterReadPcs => Main.readings =
            [k \in 1..Len(OkChannels(Main.answers)) |->
               Reading(sensor_map[OkChannels(Main.answers)[k]], now)]
       /\ Len(Main.readings) <= n - 1
       /\ ReadReturned => plc.connected = "False"

\* C13 witness: the read of the third channel raised after two channels had
\* been read; read_sensors has returned those two readings.
C13_Witness ==
    /\ ReadReturned
    /\ Main.answers = <<"ok", "ok", "raised">>
    /\ Len(Main.readings) = 2
    /\ plc.connected = "False"

---------------------------------------------------------------------------
(* Properties of the PLCConnection methods, checked under SpecDevice. *)

\* What connect() guarantees whatever the client does: it returns (a value,
\* not an exception), the value it returns is the connected flag it leaves,
\* a client exists afterwards unless closing the previous one raised, and on
\* success connected is true and last_error is cleared.
ConnectCaptures ==
    /\ call.result \in {"True", "False"}
    /\ call.result = plc.connected
    /\ call.arg \in {"close_raised", "close_raised_bare"} => call.before.client
    /\ call.arg \notin {"close_raised", "close_raised_bare"} => plc.client
    /\ call.arg = "ok" <=> plc.connected = "True"
    /\ call.arg = "ok" => plc.last_error = "None"

\* C14 as claimed (PLCConnection.connect never raises): ConnectCaptures, and
\* on every failure -- a refused connection, an error raised by connect() or
\* by closing the previous client -- connected is false and a non-empty
\* last_error is recorded.
C14_ConnectRecordsNonEmptyError ==
    call.op = "connect"
    => /\ ConnectCaptures
       /\ call.arg # "ok"
            => (plc.connected = "False" /\ plc.last_error \notin {"None", ""})

\* C14 as amended: ConnectCaptures, and on every failure connected is false
\* and last_error is set: to "Connection failed" for a refused connection, to
\* the message of the error for a raised one, which is the empty string when
\* the error carries no message.
C14_ConnectNeverRaises ==
    call.op = "connect"
    => /\ ConnectCaptures
       /\ call.arg # "ok"
            => /\ plc.connected = "False"
               /\ plc.last_error # "None"
               /\ call.arg = "refused" => plc.last_error = "Connection failed"
               /\ plc.last_error = "" => call.arg \in {"close_raised_bare",
                                                       "connect_raised_bare"}

\* C14 witness: closing the client of an established connection raised
\* during a reconnect; connect() returned False with the error recorded.
C14_Witness ==
    /\ call.op = "connect"
    /\ call.arg = "close_raised"
    /\ call.before.connected = "True"
    /\ call.result = "False"
    /\ plc.last_error = "timed out"

---------------------------------------------------------------------------
(* Startup, exit status and release, checked under Spec. *)

\* The process has exited.
Exited == exit_status # -1

\* Startup failed: run() never got to data_collection_loop.  (This is the
\* case when the storage connection is refused 5 times or the first device
\* connection fails, and also when the schema initialisation raises.)
StartupFailed == Exited /\ ~obs.loop_entered

\* The exit status after a failed startup is not zero, and no device read
\* and no buffer append were made.
StartupFailureExit ==
    StartupFailed
    => /\ exit_status # 0
       /\ env.polls = 0
       /\ buffer = <<>>
       /\ stats.readings_collected = 0

ClaimedDelays == <<2, 4, 8, 16>>

\* C17 (storage connect terminates): connect() makes at most 5 attempts; it
\* returns True at the first attempt that succeeds and makes no attempt after
\* it; it returns False, with connected = false, after the 5th failure in a
\* row; it has slept 2, 4, 8, 16 between consecutive failed attempts and
\* nothing after the last one.
C17_StorageConnectTerminates ==
    /\ dbc.attempt \in 0..4
    /\ env.startup <= 5
    /\ dbc.slept = SubSeq(ClaimedDelays, 1, dbc.attempt)
    /\ dbc.result = "pending"
         => /\ Main.pc \in {"db_connect", "db_backoff"}
            /\ Main.pc = "db_connect" => env.startup = dbc.attempt
            /\ Main.pc = "db_backoff" => env.startup = dbc.attempt + 1
            /\ ~db.connected
    /\ dbc.result # "pending" => Main.pc \notin {"db_connect", "db_backoff"}
    /\ dbc.result = "True" => env.startup = dbc.attempt
    /\ Main.pc = "init_db" => (dbc.result = "True" /\ db.connected)
    /\ dbc.result = "False"
         => /\ env.startup = 5
            /\ dbc.slept = ClaimedDelays
            /\ now = 2 + 4 + 8 + 16
            /\ ~db.connected
            /\ ~obs.loop_entered

\* C17 witness: five attempts failed; connect() has returned False after
\* sleeping 30 s in all.
C17_Witness ==
    /\ dbc.result = "False"
    /\ env.startup = 5
    /\ now = 30
    /\ Main.pc = "cleanup_plc"

\* C18 (unconditional release): whenever run() has returned -- after a
\* startup failure, an unexpected fault or a clean shutdown -- both
\* PLCConnection.disconnect and IndustrialDatabaseManager.disconnect have
\* been called, also when the other disconnect failed.
C18_UnconditionalRelease ==
    Exited
    => /\ obs.plc_disconnect \in {"returned", "raised"}
       /\ obs.db_disconnect \in {"returned", "raised"}

---------------------------------------------------------------------------
(* Polling, flushing and cancellation, checked under Spec. *)

\* The frames that are inside self.db.bulk_insert_readings: the call has been
\* made and has not returned (the insert takes effect when it returns).
BulkWritesInProgress == {i \in 1..Depth : stack[i].pc = "bulk_insert"}

\* read_sensors has started and not yet returned.
DeviceReadInProgress == Main.pc = "read_channel"

\* C19 (no overlap of polling and flushing): at most one bulk write is in
\* progress at any time, and none is in progress while a device read has
\* started and not yet returned, flushes of the stop request included.
C19_NoOverlap ==
    /\ Cardinality(BulkWritesInProgress) <= 1
    /\ DeviceReadInProgress => BulkWritesInProgress = {}

\* Once the running flag is clear no iteration is started: the while test
\* leads out of the loop, and the count of iterations started stands still.
NoNewIteration ==
    [][ ~running
          => /\ obs'.iter = obs.iter
             /\ (Main.pc = "loop_while" /\ Depth = 1 /\ stack'[1] # stack[1])
                  => stack'[1].pc = "cleanup_plc"
             /\ (Main.pc \notin {"loop_conn", "read_sensors", "read_channel"}
                   /\ Main.pc \in LoopPcs)
                  => stack'[1].pc \notin {"loop_conn", "read_sensors", "read_channel"}
      ]_vars

\* Once the running flag is clear inside the loop, the loop is eventually left.
LoopEventuallyExits ==
    (~running /\ Main.pc \in LoopPcs) ~> (Main.pc \notin LoopPcs)

\* C20 (cooperative cancellation): once the running flag has been cleared the
\* loop starts no new iteration -- no connect attempt and no device read is
\* begun after the iteration in progress -- and, every call of the main thread
\* returning, the loop eventually exits; also when the flag is cleared during
\* the backoff after a failed connect.
C20_CooperativeCancellation == NoNewIteration /\ LoopEventuallyExits

---------------------------------------------------------------------------
(* Recovery, buffer growth and accounting, checked under Spec. *)

\* C21 (recovery from a fatal read): once a read fault has set connected to
\* false, connected becomes true again only by a connect() that succeeds,
\* made by the connection check at the top of a loop iteration; until then
\* the loop finishes the iteration of the fault and then does nothing but
\* test the flag, attempt connect() and back off; read_sensors is never
\* called, and no channel is read, while connected is false.
C21_RecoveryFromFatalRead ==
    [][ /\ (plc.connected # "True" /\ plc'.connected = "True")
             => /\ Top.pc \in {"plc_connect", "loop_conn"}
                /\ plc' = plc_connect(plc, "ok")
                /\ env.read_faults >= 1 => (Depth = 1 /\ Top.pc = "loop_conn")
        /\ (plc'.connected # "True" /\ stack'[1].pc \in LoopPcs)
             => /\ stack'[1].pc \notin {"read_sensors", "read_channel"}
                /\ stack'[1].pc \in AfterReadPcs
                     => Count(stack'[1].answers, "raised") = 1
        /\ (MainAt("loop_conn") /\ plc.connected # "True" /\ Len(stack') = 1
              /\ stack' # stack /\ ~LoopFaultStep)
             => /\ stack'[1].attempts = 1
                /\ stack'[1].pc = "read_sensors" <=> plc'.connected = "True"
                /\ stack'[1].pc = "loop_backoff" <=> plc'.connected # "True"
      ]_vars

\* C21 witness: a channel read raised, the next iteration reconnected, and
\* the device is being read again.
C21_Witness ==
    /\ env.read_faults = 1
    /\ MainAt("read_channel")
    /\ Main.attempts = 1
    /\ plc.connected = "True"
    /\ obs.iter >= 2

\* An appender is never made to wait: when the loop is about to take the
\* buffer lock for an append the lock is free, whatever the buffer holds.
AppendNeverBlocked == MainAt("add_acquire") => lock = 0

\* The iteration has reached its poll sleep after appending readings.
AppendedAndCompleted == Main.pc = "sleep" /\ Main.readings # <<>>

HandlerWaitsForInterrupted ==
    /\ InHandler
    /\ Top.pc = "gc_acquire"
    /\ lock # 0
    /\ lock < Depth

\* C23 (deadlock-free shutdown): wherever in the iteration the signal
\* interrupts the loop, add_readings and get_and_clear holding the buffer
\* lock included, the handler acquires the lock and goes on to its final
\* flush: in no reachable state does the handler wait for a lock held by the
\* code it interrupted.
C23_DeadlockFreeShutdown == ~HandlerWaitsForInterrupted

\* The number of readings in the batches of the first n bulk writes that
\* storage did not accept (returned False or raised): the readings the flush
\* logs as lost.
RECURSIVE LostIn(_)
LostIn(n) ==
    IF n = 0 THEN 0
    ELSE LostIn(n - 1) + (IF writes[n].result # "True" THEN Len(writes[n].batch) ELSE 0)

\* The readings accounted for: stored, lost with a failed bulk write, or
\* still in the buffer.
Accounted == stats.readings_stored + LostIn(Len(writes)) + Len(buffer)

\* run() is at the top of the while loop and no handler is running.
IterationBoundary == MainAt("loop_while")

NoRepeats(seq) == Cardinality(Elems(seq)) = Len(seq)

\* The frames that hold a drained list they have not yet handed to storage.
FlushesInFlight == {k \in 1..Depth : stack[k].pc \in {"gc_release", "bulk_insert"}}

\* C25 (no duplicate delivery): every batch handed to storage holds each of
\* its readings once; the batches handed to storage are pairwise disjoint;
\* a drained list still on its way to storage shares no reading with a batch
\* already handed over, with another drained list or with the buffer; and no
\* reading that was handed to storage is in the buffer -- over loop flushes
\* and shutdown flushes, those of a handler that interrupted a loop flush
\* and of a repeated stop request included.
C25_NoDuplicateDelivery ==
    /\ \A i \in 1..Len(writes) :
         /\ NoRepeats(writes[i].batch)
         /\ Elems(writes[i].batch) \cap Elems(buffer) = {}
         /\ \A j \in 1..Len(writes) :
              i < j => Elems(writes[i].batch) \cap Elems(writes[j].batch) = {}
    /\ \A k \in FlushesInFlight :
         /\ NoRepeats(stack[k].batch)
         /\ Elems(stack[k].batch) \cap Elems(buffer) = {}
         /\ \A i \in 1..Len(writes) :
              Elems(stack[k].batch) \cap Elems(writes[i].batch) = {}
         /\ \A m \in FlushesInFlight :
              m # k => Elems(stack[k].batch) \cap Elems(stack[m].batch) = {}

\* C25 witness: a stop request interrupted a loop flush before its drain;
\* the shutdown flush handed the buffered readings to storage, after an
\* earlier loop flush had handed over its own; the stop request was
\* repeated, and the interrupted flush then drained nothing.
C25_Witness ==
    /\ MainAt("gc_release")
    /\ Main.ret = "sleep"
    /\ Main.batch = <<>>
    /\ obs.drained
    /\ env.signals = 2
    /\ Len(writes) = 2
    /\ Len(writes[1].batch) = 5
    /\ Len(writes[2].batch) = 5

\* The four counters of IndustrialDataCollector.stats.
Counters ==
    {"readings_collected", "readings_stored", "connection_errors", "database_errors"}

\* No counter decreases in a step.
CountersNeverDecrease == [][\A c \in Counters : stats'[c] >= stats[c]]_vars

\* C26 (counter sanity): the four counters start at zero and never decrease,
\* and in every reachable state -- inside an iteration as well as at its
\* boundaries, and when the shutdown handler has interrupted the loop between
\* the buffer append and the counter update -- readings_stored is at most
\* readings_collected.
C26_CounterSanity ==
    [][ /\ \A c \in Counters : stats'[c] >= stats[c] /\ stats[c] >= 0
        /\ stats'.readings_stored <= stats'.readings_collected
      ]_vars

---------------------------------------------------------------------------
(* From startup to the first poll, checked under Spec. *)

\* run() takes a step (a handler on top of it does not count).
RunSteps == stack'[1] # stack[1]

\* C27 (startup reaches polling): once the storage connection and the device
\* connection of connect_tosystems have both succeeded, the next step of
\* run() starts the statistics thread and enters data_collection_loop
\* without a failure status; the first test of the running flag starts the
\* first poll iteration unless a stop request has arrived before it; and
\* run() takes a failure status only inside connect_tosystems.
C27_StartupReachesPolling ==
    [][ /\ (Main.pc = "start_stats" /\ RunSteps)
             => /\ stack'[1].pc = "loop_while"
                /\ stack'[1].rv = "None"
                /\ obs'.loop_entered
        /\ (Main.pc = "loop_while" /\ obs.iter = 0 /\ RunSteps)
             => IF running
                THEN stack'[1].pc = "loop_conn" /\ obs'.iter = 1
                ELSE obs.stopped /\ stack'[1].pc = "cleanup_plc"
                       /\ stack'[1].rv = "None"
        /\ (stack'[1].rv = "1" /\ RunSteps)
             => Main.pc \in {"db_connect", "init_db", "plc_connect",
                             "cleanup_plc", "cleanup_db"}
      ]_vars

=============================================================================
